---- MODULE Spec2Model ----
(***************************************************************************)
(* The registration / attendance ledger of QRPASS.                         *)
(*                                                                         *)
(* Two backend entry points implement the same routes over one MongoDB     *)
(* database: the Express routes (registerRoutes, "server") and the         *)
(* single-function serverless handler (handler, "api").  A request is a    *)
(* sequence of awaited database operations; each awaited operation is one  *)
(* atomic step of the model, and the synchronous code between two awaits   *)
(* belongs to the step of the operation it follows.                        *)
(*                                                                         *)
(* The arrival of a request, its authentication read (User.findById) and   *)
(* its first awaited operation on the ledger form one step: the arrival    *)
(* touches no shared state and no route changes or deletes a user, so a    *)
(* request that has arrived but not yet read behaves as one that arrives   *)
(* later.                                                                  *)
(***************************************************************************)
EXTENDS Integers, Sequences, FiniteSets, TLC

(***************************************************************************)
(* Bounds of the model.                                                    *)
(***************************************************************************)
\* Number of requests issued in one behaviour.
MaxRequests == 3
\* Largest finite capacity an event is given.
MaxCapacity == 1

(***************************************************************************)
(* The user directory, the event catalog and the callers.                  *)
(***************************************************************************)
Users == {"u1", "u2", "adm"}

\* The users who register for events.
Attendees == {"u1", "u2"}

\* A username that no seeded user holds.
NewComer == "n1"

\* UserSchema.role: enum ["admin", "user"].
Role(u) == IF u = "adm" THEN "admin" ELSE "user"

\* A request without a session token.
Anonymous == "anon"

\* A request whose token jwt.verify rejects (bad signature or expired).
Expired == "expired"

\* A request whose token is valid and names a user that User.findById no
\* longer finds.
Departed == "departed"

\* The requests without a valid session.
Sessionless == {Anonymous, Expired, Departed}

Callers == Users \cup Sessionless

EventIds == {"e1", "e2"}

\* Well-formed ids that name no user and no event.
UnknownUser == "u0"
UnknownEvent == "e0"

Backends == {"server", "api"}

\* Event.capacity is an optional Number: {} is an absent capacity.
CapacityChoices == {{}} \cup {{c} : c \in 0..MaxCapacity}

\* JavaScript truthiness of event.capacity: absent and 0 are falsy.
Truthy(capacity) == capacity # {} /\ capacity # {0}

\* scannedAt of a registration that was never scanned (the field is unset).
NoDate == 0

\* _id of no document.
NoId == 0

\* The value of a property that an object does not have.
Undefined == "undefined"

(***************************************************************************)
(* The credential: JSON text, as JSON.stringify writes it and JSON.parse   *)
(* reads it.  A text is its kind and, for an object, its members.          *)
(***************************************************************************)
\* JSON.stringify({ uid, eid, rid: Date.now().toString() }) of the Express route.
StringifyServer(uid, eid, t) ==
    [kind |-> "object", members |-> [uid |-> uid, eid |-> eid, rid |-> t]]

\* JSON.stringify({ uid, eid, t: Date.now() }) of the serverless handler.
StringifyApi(uid, eid, t) ==
    [kind |-> "object", members |-> [uid |-> uid, eid |-> eid, t |-> t]]

\* A codec that writes the event under uid and the user under eid.
MintCredential_SwapsMembers(be, uid, eid, t) ==
    IF be = "server" THEN StringifyServer(eid, uid, t) ELSE StringifyApi(eid, uid, t)

MintCredential(be, uid, eid, t) ==
    IF be = "server" THEN StringifyServer(uid, eid, t) ELSE StringifyApi(uid, eid, t)

\* Texts a scanner can submit that no register call minted.
GarbageText == [kind |-> "invalid", members |-> << >>]
NullText == [kind |-> "null", members |-> << >>]
NumberText == [kind |-> "number", members |-> << >>]
EmptyObjectText == [kind |-> "object", members |-> << >>]

MalformedTexts == {GarbageText, NullText, NumberText, EmptyObjectText}

\* JSON.parse: a SyntaxError on text that is not JSON, else the value.
JSONparse(text) ==
    IF text.kind = "invalid"
    THEN [threw |-> TRUE, kind |-> "none", members |-> << >>]
    ELSE [threw |-> FALSE, kind |-> text.kind, members |-> text.members]

\* parsed.key: a TypeError on null; undefined on a number or on an object
\* without the member.
PropertyThrows(parsed) == parsed.kind = "null"

Property(parsed, key) ==
    IF parsed.kind = "object" /\ key \in DOMAIN parsed.members
    THEN parsed.members[key]
    ELSE Undefined

(***************************************************************************)
(* State.                                                                  *)
(***************************************************************************)
VARIABLES
    backend,        \* the entry point that serves the requests
    events,         \* the Event collection: id -> [exists, capacity]
    registrations,  \* the Registration collection: a set of documents
    notifications,  \* the Notification collection: a set of documents
    nextId,         \* the next Registration _id (ObjectIds are never reused)
    now,            \* the clock that Date.now() / new Date() read
    req,            \* the requests: parameters, position, locals, response
    workload,       \* who calls which route, with which inputs, how many at once
    accounts,       \* the User documents created through the signup route
    store,          \* the browser: the state of AppProvider
    location,       \* the browser: the path the router shows
    dashboard,      \* the browser: the state of the two dashboard pages
    fetches,        \* the browser: the requests whose answer is awaited
    cookie          \* the browser: the account of the session token, if any

\* The browser's part of the state.
client == <<store, location, dashboard, fetches, cookie>>

vars == <<backend, events, registrations, notifications, nextId, now, req,
          workload, accounts, client>>

Req == DOMAIN req

IdleRequest ==
    [pc |-> "idle", route |-> "none", caller |-> Anonymous, eventId |-> "none",
     id |-> NoId, qrData |-> GarbageText, capacity |-> {}, doc |-> NoId,
     date |-> NoDate, status |-> 0, message |-> "", success |-> "none",
     body |-> NoId, data |-> {}, username |-> "none", role |-> Undefined]

\* The callers of the ledger proper: attendees register for one event, every
\* user cancels, the admin scans issued and forged credentials and deletes the
\* event; all requests may be in flight together.
LedgerWorkload ==
    [register |-> Attendees, cancel |-> Users, scan |-> {"adm"},
     delete_event |-> {"adm"}, events |-> {"e1"}, malformed |-> {},
     unknown |-> {}, stale |-> FALSE, list |-> {}, inflight |-> MaxRequests,
     signup |-> {}, mark_read |-> {}]

\* The same callers, one request at a time; the admin also scans credentials
\* that name an unknown user or an unknown event, and credentials of
\* registrations that are no longer stored.
SequentialWorkload ==
    [LedgerWorkload EXCEPT !.inflight = 1,
                           !.unknown = {<<UnknownUser, "e1">>, <<"u1", UnknownEvent>>},
                           !.stale = TRUE]

\* Every caller on every route, the unauthenticated and the unauthorized
\* included, a scanner that also submits malformed text, and the two list
\* routes.
GateWorkload ==
    [register |-> Attendees \cup Sessionless, cancel |-> Callers,
     scan |-> {"adm", "u1"} \cup Sessionless,
     delete_event |-> {"adm", "u1"} \cup Sessionless,
     events |-> {"e1"}, malformed |-> MalformedTexts,
     unknown |-> {}, stale |-> FALSE, list |-> {"adm", "u1"} \cup Sessionless,
     inflight |-> MaxRequests, signup |-> {}, mark_read |-> {}]

\* The ledger callers with two events to register for, one request at a time.
TwoEventWorkload ==
    [LedgerWorkload EXCEPT !.events = {"e1", "e2"}, !.inflight = 1]

\* The ledger callers, an attendee and the admin on the two list routes, at
\* most two requests in flight together.
ListWorkload ==
    [LedgerWorkload EXCEPT !.cancel = {"u1"}, !.list = {"u1", "adm"}, !.inflight = 2]

(***************************************************************************)
(* The browser before the page is loaded.                                  *)
(***************************************************************************)
\* useState<User | null>(null): nobody is logged in.
Null == [id |-> "null", role |-> "none"]

\* JavaScript values a component holds: null, a pending Promise, an object.
NullValue == [kind |-> "null", members |-> << >>]
PromiseValue == [kind |-> "promise", members |-> << >>]

\* No session token in the cookie jar.
NoCookie == "none"

\* The initial state of AppProvider.
EmptyStore ==
    [user |-> Null, users |-> {}, registrations |-> {}, notifications |-> {}]

\* What the browser gets back: the HTTP status and the success and message
\* members of the body.
Answer(status, success, message) ==
    [status |-> status, success |-> success, message |-> message]

NoAnswer == Answer(0, "none", "none")
Pending == Answer(0, "none", "pending")

\* The initial state of UserDashboard and of AdminDashboard.
DashboardAtMount ==
    [selectedEventId |-> "null", isRegModalOpen |-> FALSE,
     successModalOpen |-> FALSE, newRegistration |-> NullValue,
     isScanning |-> FALSE, scanResult |-> NullValue, toast |-> "none",
     answered |-> NoAnswer]

BrowserClosed ==
    /\ store = EmptyStore
    /\ location = [path |-> "/", redirects |-> 0]
    /\ dashboard = DashboardAtMount
    /\ fetches = {}
    /\ cookie = NoCookie

\* One attendee registers and cancels; a newcomer signs up, with any role in
\* the body, and then scans; both attendees mark notifications as read; one
\* request at a time.
AccountsWorkload ==
    [LedgerWorkload EXCEPT !.register = {"u1"}, !.cancel = {"u1"},
                           !.scan = {"adm", NewComer},
                           !.signup = {NewComer, "u1"},
                           !.mark_read = Attendees, !.inflight = 1]

\* The catalogs a behaviour starts from: every event exists; the first has any
\* capacity, the others have none.
InitialCatalogs ==
    {c \in [EventIds -> [exists : {TRUE}, capacity : CapacityChoices]] :
       \A e \in EventIds \ {"e1"} : c[e].capacity = {}}

Init ==
    /\ backend \in Backends
    /\ events \in InitialCatalogs
    /\ registrations = {}
    /\ notifications = {}
    /\ nextId = 1
    /\ now = 1
    /\ req = [r \in 1..MaxRequests |-> IdleRequest]
    /\ workload = LedgerWorkload
    /\ accounts = {}
    /\ BrowserClosed

\* Sequential callers: each request is answered before the next is issued.
InitSeq ==
    /\ backend \in Backends
    /\ events \in InitialCatalogs
    /\ registrations = {}
    /\ notifications = {}
    /\ nextId = 1
    /\ now = 1
    /\ req = [r \in 1..(MaxRequests + 1) |-> IdleRequest]
    /\ workload = SequentialWorkload
    /\ accounts = {}
    /\ BrowserClosed

\* All callers, malformed credentials included.  What the gates decide is
\* decided request by request: one request fewer than in the ledger, a
\* request that builds the state and a request that is let in or turned away.
InitGate ==
    /\ backend \in Backends
    /\ events \in InitialCatalogs
    /\ registrations = {}
    /\ notifications = {}
    /\ nextId = 1
    /\ now = 1
    /\ req = [r \in 1..(MaxRequests - 1) |-> IdleRequest]
    /\ workload = GateWorkload
    /\ accounts = {}
    /\ BrowserClosed

\* Two events.
InitTwo ==
    /\ backend \in Backends
    /\ events \in InitialCatalogs
    /\ registrations = {}
    /\ notifications = {}
    /\ nextId = 1
    /\ now = 1
    /\ req = [r \in 1..MaxRequests |-> IdleRequest]
    /\ workload = TwoEventWorkload
    /\ accounts = {}
    /\ BrowserClosed

\* The ledger with its list routes.
InitList ==
    /\ backend \in Backends
    /\ events \in InitialCatalogs
    /\ registrations = {}
    /\ notifications = {}
    /\ nextId = 1
    /\ now = 1
    /\ req = [r \in 1..MaxRequests |-> IdleRequest]
    /\ workload = ListWorkload
    /\ accounts = {}
    /\ BrowserClosed

\* The ledger with the signup and mark-as-read routes.
InitAccounts ==
    /\ backend \in Backends
    /\ events \in InitialCatalogs
    /\ registrations = {}
    /\ notifications = {}
    /\ nextId = 1
    /\ now = 1
    /\ req = [r \in 1..MaxRequests |-> IdleRequest]
    /\ workload = AccountsWorkload
    /\ accounts = {}
    /\ BrowserClosed

(***************************************************************************)
(* Middleware and responses.                                               *)
(***************************************************************************)
\* A gate that trusts a valid token without looking the user up.
Authenticated_TrustsToken(caller) == caller \in Users \cup {Departed}

\* authMiddleware / getAuthUser: the user of the session token, if any: a
\* seeded user or an account that the signup route created.
Authenticated(caller) ==
    caller \in Users \/ \E a \in accounts : a.username = caller

\* user.role of the document that User.findById returns.
RoleOf(caller) ==
    IF \E a \in accounts : a.username = caller
    THEN (CHOOSE a \in accounts : a.username = caller).role
    ELSE Role(caller)

\* The message of the 401: authMiddleware tells the three failures apart,
\* getAuthUser returns null for each and the handler answers one message.
AuthFailure(caller) ==
    IF backend = "api" \/ caller = Anonymous THEN "Authentication required"
    ELSE IF caller = Expired THEN "Invalid or expired token"
    ELSE "User not found"

\* A gate that lets every authenticated user through.
IsAdmin_AnyUser(caller) == caller \in Users

\* adminMiddleware.
IsAdmin(caller) == Authenticated(caller) /\ RoleOf(caller) = "admin"

\* res.status(code).json({ message }) and the end of the request.
Respond(q, code, message) ==
    [q EXCEPT !.pc = "done", !.status = code, !.message = message]

\* res.status(code).json({ success, message, registration? }) of the scan route.
RespondScan(q, code, success, message, regId) ==
    [q EXCEPT !.pc = "done", !.status = code, !.message = message,
              !.success = success, !.body = regId]

\* The catch of the scan route: the Express route answers { success: false,
\* message }, the serverless handler's single catch answers { message } alone.
RespondScanError(q, message) ==
    RespondScan(q, 500, IF backend = "server" THEN "false" ELSE "none", message, NoId)

\* Requests are issued in slot order: slots are interchangeable.
InFlight == {s \in Req : req[s].pc \notin {"idle", "done"}}

CanStart(r) ==
    /\ req[r].pc = "idle"
    /\ \A s \in Req : s < r => req[s].pc # "idle"
    /\ Cardinality(InFlight) < workload.inflight

Receive(r, route, caller, eventId, id, qrData) ==
    [IdleRequest EXCEPT !.route = route, !.caller = caller, !.eventId = eventId,
                        !.id = id, !.qrData = qrData]

DbUnchanged ==
    UNCHANGED <<backend, events, registrations, notifications, nextId, now,
                workload, accounts, client>>

(***************************************************************************)
(* Mongoose operations on the Registration collection.                     *)
(***************************************************************************)
\* A lookup that filters on the user alone.
FindOneByUserEvent_UserOnly(uid, eid) ==
    LET hits == {x \in registrations : x.userId = uid}
    IN  IF hits = {} THEN NoId ELSE (CHOOSE x \in hits : TRUE).id

\* Registration.findOne({ userId, eventId }): the _id of a match, NoId if none.
\* An undefined filter value is sent as null and matches no document, since
\* userId and eventId are required.
FindOneByUserEvent(uid, eid) ==
    LET hits == {x \in registrations : x.userId = uid /\ x.eventId = eid}
    IN  IF hits = {} THEN NoId ELSE (CHOOSE x \in hits : TRUE).id

\* Registration.findById(id) / findOne({ _id }).
FindById(id) == {x \in registrations : x.id = id}

\* A count over the whole collection.
CountDocuments_AllEvents(eid) == Cardinality(registrations)

\* Registration.countDocuments({ eventId }).
CountDocuments(eid) == Cardinality({x \in registrations : x.eventId = eid})

\* A collection without the unique index accepts every insert.
DuplicateKey_NoIndex(uid, eid) == FALSE

\* RegistrationSchema.index({ userId: 1, eventId: 1 }, { unique: true }):
\* an insert of a second document with the same pair fails (E11000).
DuplicateKey(uid, eid) ==
    \E x \in registrations : x.userId = uid /\ x.eventId = eid

\* The document Registration.create inserts: status defaults to "pending",
\* registeredAt to Date.now, scannedAt is unset.
NewRegistration(id, uid, eid, t, be) ==
    [id |-> id, userId |-> uid, eventId |-> eid, status |-> "pending",
     registeredAt |-> t, scannedAt |-> NoDate,
     qrCodeData |-> MintCredential(be, uid, eid, t)]

(***************************************************************************)
(* POST /api/registrations                                                 *)
(***************************************************************************)
\* authMiddleware / getAuthUser, then
\* const existing = await Registration.findOne({ userId, eventId })
RegisterReceive(q) ==
    IF ~Authenticated(q.caller)
    THEN Respond(q, 401, AuthFailure(q.caller))
    ELSE IF FindOneByUserEvent(q.caller, q.eventId) # NoId
    THEN Respond(q, 400, "Already registered for this event")
    ELSE [q EXCEPT !.pc = "register_event"]

\* A caller rejected before the route reads its input sends one fixed input.
AnyEvent == CHOOSE e \in EventIds : TRUE

RegisterInputs ==
    {in \in workload.register \X workload.events :
       ~Authenticated(in[1]) => in[2] = AnyEvent}

RegisterStart(r) ==
    /\ CanStart(r)
    /\ \E in \in RegisterInputs :
          req' = [req EXCEPT ![r] =
              RegisterReceive(Receive(r, "register", in[1], in[2], NoId, GarbageText))]
    /\ DbUnchanged

\* A register that takes an absent capacity for no room at all.
RegisterFindEvent_AbsentIsFull(r) ==
    /\ req[r].pc = "register_event"
    /\ LET event == events[req[r].eventId]
       IN  req' = [req EXCEPT ![r] =
             IF ~event.exists
             THEN Respond(req[r], 404, "Event not found")
             ELSE IF event.capacity = {}
             THEN Respond(req[r], 400, "Event is at full capacity")
             ELSE [req[r] EXCEPT !.capacity = event.capacity,
                                 !.pc = IF Truthy(event.capacity)
                                        THEN "register_count"
                                        ELSE "register_create"]]
    /\ DbUnchanged

\* const event = await Event.findById(eventId); if (event.capacity) ...
RegisterFindEvent(r) ==
    /\ req[r].pc = "register_event"
    /\ LET event == events[req[r].eventId]
       IN  req' = [req EXCEPT ![r] =
             IF ~event.exists
             THEN Respond(req[r], 404, "Event not found")
             ELSE [req[r] EXCEPT !.capacity = event.capacity,
                                 !.pc = IF Truthy(event.capacity)
                                        THEN "register_count"
                                        ELSE "register_create"]]
    /\ DbUnchanged

\* A capacity test that lets one registration too many in.
AtCapacity_OffByOne(count, capacity) == \E c \in capacity : count > c

\* if (count >= event.capacity)
AtCapacity(count, capacity) == \E c \in capacity : count >= c

\* const count = await Registration.countDocuments({ eventId })
RegisterCount(r) ==
    /\ req[r].pc = "register_count"
    /\ req' = [req EXCEPT ![r] =
          IF AtCapacity(CountDocuments(req[r].eventId), req[r].capacity)
          THEN Respond(req[r], 400, "Event is at full capacity")
          ELSE [req[r] EXCEPT !.pc = "register_create"]]
    /\ DbUnchanged

\* await Registration.create({ userId, eventId, qrCodeData, ... }); the
\* Express route answers 201 here, the serverless handler goes on to notify.
\* A duplicate-key error is caught by the route's catch and answered 500.
RegisterCreate(r) ==
    /\ req[r].pc = "register_create"
    /\ IF DuplicateKey(req[r].caller, req[r].eventId)
       THEN /\ req' = [req EXCEPT ![r] = Respond(req[r], 500, "E11000 duplicate key")]
            /\ UNCHANGED <<registrations, nextId>>
       ELSE /\ registrations' = registrations \cup
                  {NewRegistration(nextId, req[r].caller, req[r].eventId, now, backend)}
            /\ nextId' = nextId + 1
            /\ req' = [req EXCEPT ![r] =
                  IF backend = "server"
                  THEN [Respond(req[r], 201, "created") EXCEPT !.body = nextId,
                                                               !.date = now]
                  ELSE [req[r] EXCEPT !.pc = "register_notify", !.doc = nextId,
                                      !.date = now]]
    /\ now' = now + 1
    /\ UNCHANGED <<backend, events, notifications, workload, accounts, client>>

\* await Notification.create({ userId, title: "Registration Confirmed", ... })
RegisterNotify(r) ==
    /\ req[r].pc = "register_notify"
    /\ notifications' = notifications \cup
          {[id |-> Cardinality(notifications) + 1, userId |-> req[r].caller,
            title |-> "Registration Confirmed", read |-> FALSE]}
    /\ req' = [req EXCEPT ![r] =
          [Respond(req[r], 201, "Registration successful") EXCEPT !.body = req[r].doc]]
    /\ UNCHANGED <<backend, events, registrations, nextId, now, workload, accounts, client>>

\* A handler that undoes the registration when the notification fails.
RegisterNotifyFails_RollsBack(r) ==
    /\ req[r].pc = "register_notify"
    /\ registrations' = {x \in registrations : x.id # req[r].doc}
    /\ req' = [req EXCEPT ![r] = Respond(req[r], 500, "storage fault")]
    /\ UNCHANGED <<backend, events, notifications, nextId, now, workload, accounts, client>>

\* Notification.create rejects (a storage fault): the handler's catch answers
\* 500; nothing undoes the Registration.create before it.
RegisterNotifyFails(r) ==
    /\ req[r].pc = "register_notify"
    /\ req' = [req EXCEPT ![r] = Respond(req[r], 500, "storage fault")]
    /\ DbUnchanged

(***************************************************************************)
(* DELETE /api/registrations/:id                                           *)
(***************************************************************************)
\* Registration ids a caller can name: every _id handed out so far.
KnownIds == 1..(nextId - 1)

\* Express route: Registration.findOne({ _id: req.params.id, userId: req.user._id }).
CancelFindServer(q) ==
    LET found == {x \in FindById(q.id) : x.userId = q.caller}
    IN  IF found = {}
        THEN Respond(q, 404, "Registration not found")
        ELSE [q EXCEPT !.pc = "cancel_delete", !.doc = q.id]

\* Serverless handler: Registration.findById(id), then the owner-or-admin test.
CancelFindApi(q) ==
    LET found == FindById(q.id)
    IN  IF found = {}
        THEN Respond(q, 404, "Registration not found")
        ELSE IF (\A x \in found : x.userId # q.caller) /\ RoleOf(q.caller) # "admin"
             THEN Respond(q, 403, "Not authorized")
             ELSE [q EXCEPT !.pc = "cancel_delete", !.doc = q.id]

\* A cancel that answers success when there is nothing to delete.
CancelReceive_MissingIsOk(q) ==
    IF ~Authenticated(q.caller)
    THEN Respond(q, 401, AuthFailure(q.caller))
    ELSE IF FindById(q.id) = {}
    THEN Respond(q, 200, "Registration cancelled")
    ELSE IF backend = "server" THEN CancelFindServer(q) ELSE CancelFindApi(q)

\* authMiddleware / getAuthUser, then the lookup of the entry point.
CancelReceive(q) ==
    IF ~Authenticated(q.caller)
    THEN Respond(q, 401, AuthFailure(q.caller))
    ELSE IF backend = "server" THEN CancelFindServer(q) ELSE CancelFindApi(q)

CancelInputs ==
    {in \in workload.cancel \X KnownIds : ~Authenticated(in[1]) => in[2] = 1}

\* A cancel that deletes the document it was given before it has looked at
\* the owner.
CancelStart_DeletesFirst(r) ==
    /\ CanStart(r)
    /\ \E in \in CancelInputs :
          /\ req' = [req EXCEPT ![r] =
                CancelReceive(Receive(r, "cancel", in[1], "none", in[2], GarbageText))]
          /\ registrations' = IF Authenticated(in[1])
                              THEN {x \in registrations : x.id # in[2]}
                              ELSE registrations
    /\ UNCHANGED <<backend, events, notifications, nextId, now, workload, accounts, client>>

CancelStart(r) ==
    /\ CanStart(r)
    /\ \E in \in CancelInputs :
          req' = [req EXCEPT ![r] =
              CancelReceive(Receive(r, "cancel", in[1], "none", in[2], GarbageText))]
    /\ DbUnchanged

\* await registration.deleteOne(): deletes by _id; no error if already gone.
CancelDelete(r) ==
    /\ req[r].pc = "cancel_delete"
    /\ registrations' = {x \in registrations : x.id # req[r].doc}
    /\ req' = [req EXCEPT ![r] = Respond(req[r], 200, "Registration cancelled")]
    /\ UNCHANGED <<backend, events, notifications, nextId, now, workload, accounts, client>>

(***************************************************************************)
(* POST /api/registrations/scan                                            *)
(***************************************************************************)
\* Credentials a scanner can submit: the stored ones, the ones of
\* registrations that are no longer stored, forged ones for the pairs that
\* have no registration, and malformed text.
IssuedTexts == {x.qrCodeData : x \in registrations}

\* The credential each register call minted when it created its registration.
MintedTexts ==
    {MintCredential(backend, req[r].caller, req[r].eventId, req[r].date) :
       r \in {c \in Req : req[c].route = "register" /\ req[c].date # NoDate}}

StaleTexts == IF workload.stale THEN MintedTexts \ IssuedTexts ELSE {}

ForgedTexts ==
    {StringifyServer(p[1], p[2], NoDate) :
       p \in {p \in (Attendees \X workload.events) \cup workload.unknown :
                ~\E x \in registrations : x.userId = p[1] /\ x.eventId = p[2]}}

ScanTexts == IssuedTexts \cup StaleTexts \cup ForgedTexts \cup MalformedTexts

AnyText == GarbageText

\* A scan route that marks attendance without looking at the status.
ScanReceive_NoStatusTest(q) ==
    LET parsed == JSONparse(q.qrData)
        id == FindOneByUserEvent(Property(parsed, "uid"), Property(parsed, "eid"))
    IN  IF ~Authenticated(q.caller)
        THEN Respond(q, 401, AuthFailure(q.caller))
        ELSE IF ~IsAdmin(q.caller)
        THEN Respond(q, 403, "Admin access required")
        ELSE IF parsed.threw
        THEN RespondScan(q, 400, "false", "Invalid QR code format", NoId)
        ELSE IF PropertyThrows(parsed)
        THEN RespondScanError(q, "TypeError")
        ELSE IF id = NoId
        THEN RespondScan(q, 404, "false", "Registration not found", NoId)
        ELSE [q EXCEPT !.pc = "scan_save", !.doc = id, !.date = now]

\* A scan route that looks the registration up by the credential it stores.
ScanReceive_BoundToCredential(q) ==
    LET parsed == JSONparse(q.qrData)
        hits == {x \in registrations : x.qrCodeData = q.qrData}
        id == IF hits = {} THEN NoId ELSE (CHOOSE x \in hits : TRUE).id
    IN  IF ~Authenticated(q.caller)
        THEN Respond(q, 401, AuthFailure(q.caller))
        ELSE IF ~IsAdmin(q.caller)
        THEN Respond(q, 403, "Admin access required")
        ELSE IF parsed.threw
        THEN RespondScan(q, 400, "false", "Invalid QR code format", NoId)
        ELSE IF PropertyThrows(parsed)
        THEN RespondScanError(q, "TypeError")
        ELSE IF id = NoId
        THEN RespondScan(q, 404, "false", "Registration not found", NoId)
        ELSE IF \E x \in FindById(id) : x.status = "attended"
        THEN RespondScan(q, 200, "false", "Already scanned", id)
        ELSE [q EXCEPT !.pc = "scan_save", !.doc = id, !.date = now]

\* authMiddleware, adminMiddleware; JSON.parse(qrData); the reads of
\* parsed.uid and parsed.eid that build the filter; then
\* const registration = await Registration.findOne({ userId: parsed.uid,
\* eventId: parsed.eid }); the status test; registration.scannedAt = new Date().
ScanReceive(q) ==
    LET parsed == JSONparse(q.qrData)
        id == FindOneByUserEvent(Property(parsed, "uid"), Property(parsed, "eid"))
    IN  IF ~Authenticated(q.caller)
        THEN Respond(q, 401, AuthFailure(q.caller))
        ELSE IF ~IsAdmin(q.caller)
        THEN Respond(q, 403, "Admin access required")
        ELSE IF parsed.threw
        THEN RespondScan(q, 400, "false", "Invalid QR code format", NoId)
        ELSE IF PropertyThrows(parsed)
        THEN RespondScanError(q, "TypeError")
        ELSE IF id = NoId
        THEN RespondScan(q, 404, "false", "Registration not found", NoId)
        ELSE IF \E x \in FindById(id) : x.status = "attended"
        THEN RespondScan(q, 200, "false", "Already scanned", id)
        ELSE [q EXCEPT !.pc = "scan_save", !.doc = id, !.date = now]

\* A name that is neither a seeded caller nor an account has no token to send.
ScanInputs ==
    {in \in workload.scan \X ScanTexts :
       /\ in[1] \in Callers \/ Authenticated(in[1])
       /\ IF IsAdmin(in[1])
          THEN in[2] \in MalformedTexts => in[2] \in workload.malformed
          ELSE in[2] = AnyText}

ScanStart(r) ==
    /\ CanStart(r)
    /\ \E in \in ScanInputs :
          /\ req' = [req EXCEPT ![r] =
                ScanReceive(Receive(r, "scan", in[1], "none", NoId, in[2]))]
          /\ now' = IF req'[r].pc = "scan_save" THEN now + 1 ELSE now
    /\ UNCHANGED <<backend, events, registrations, notifications, nextId, workload, accounts, client>>

\* A save that writes the status and forgets the timestamp.
SaveAttended_NoStamp(regs, id, date) ==
    {IF x.id = id THEN [x EXCEPT !.status = "attended"] ELSE x : x \in regs}

\* The write of registration.save(): updateOne({ _id }, { $set: { status,
\* scannedAt } }), keyed on _id alone.
SaveAttended(regs, id, date) ==
    {IF x.id = id THEN [x EXCEPT !.status = "attended", !.scannedAt = date] ELSE x
       : x \in regs}

\* A save that writes the document back when it is no longer stored.
ScanSave_Upserts(r) ==
    /\ req[r].pc = "scan_save"
    /\ registrations' =
          IF FindById(req[r].doc) = {}
          THEN registrations \cup
                 {[id |-> req[r].doc, userId |-> req[r].qrData.members.uid,
                   eventId |-> req[r].qrData.members.eid, status |-> "attended",
                   registeredAt |-> req[r].date, scannedAt |-> req[r].date,
                   qrCodeData |-> req[r].qrData]}
          ELSE SaveAttended(registrations, req[r].doc, req[r].date)
    /\ req' = [req EXCEPT ![r] =
          RespondScan(req[r], 200, "true", "Attendance marked successfully",
                      req[r].doc)]
    /\ UNCHANGED <<backend, events, notifications, nextId, now, workload, accounts, client>>

\* await registration.save(); a document deleted meanwhile makes save reject
\* (DocumentNotFoundError), which the catch answers 500.
ScanSave(r) ==
    /\ req[r].pc = "scan_save"
    /\ IF FindById(req[r].doc) = {}
       THEN /\ req' = [req EXCEPT ![r] =
                  RespondScanError(req[r], "DocumentNotFoundError")]
            /\ UNCHANGED registrations
       ELSE /\ registrations' = SaveAttended(registrations, req[r].doc, req[r].date)
            /\ req' = [req EXCEPT ![r] =
                  RespondScan(req[r], 200, "true", "Attendance marked successfully",
                              req[r].doc)]
    /\ UNCHANGED <<backend, events, notifications, nextId, now, workload, accounts, client>>

(***************************************************************************)
(* DELETE /api/events/:id                                                  *)
(***************************************************************************)
DeleteEventInputs ==
    {in \in workload.delete_event \X workload.events :
       ~IsAdmin(in[1]) => in[2] = AnyEvent}

\* authMiddleware, adminMiddleware, then await Event.findByIdAndDelete(id).
DeleteEventStart(r) ==
    /\ CanStart(r)
    /\ \E in \in DeleteEventInputs :
          LET q == Receive(r, "delete_event", in[1], in[2], NoId, GarbageText)
          IN  IF ~Authenticated(q.caller)
              THEN /\ req' = [req EXCEPT ![r] = Respond(q, 401, AuthFailure(q.caller))]
                   /\ UNCHANGED events
              ELSE IF ~IsAdmin(q.caller)
              THEN /\ req' = [req EXCEPT ![r] = Respond(q, 403, "Admin access required")]
                   /\ UNCHANGED events
              ELSE /\ req' = [req EXCEPT ![r] = [q EXCEPT !.pc = "delete_cascade"]]
                   /\ events' = [events EXCEPT ![q.eventId].exists = FALSE]
    /\ UNCHANGED <<backend, registrations, notifications, nextId, now, workload, accounts, client>>

\* await Registration.deleteMany({ eventId: id })
DeleteEventCascade(r) ==
    /\ req[r].pc = "delete_cascade"
    /\ registrations' = {x \in registrations : x.eventId # req[r].eventId}
    /\ req' = [req EXCEPT ![r] = Respond(req[r], 200, "Event deleted")]
    /\ UNCHANGED <<backend, events, notifications, nextId, now, workload, accounts, client>>

(***************************************************************************)
(* GET /api/registrations and GET /api/registrations/all                   *)
(***************************************************************************)
\* A list-mine without the filter on the owner.
ListMine_Unfiltered(r) ==
    /\ CanStart(r)
    /\ \E caller \in workload.list :
          LET q == Receive(r, "list_mine", caller, "none", NoId, GarbageText)
          IN  req' = [req EXCEPT ![r] =
                IF ~Authenticated(caller)
                THEN Respond(q, 401, AuthFailure(caller))
                ELSE [Respond(q, 200, "") EXCEPT !.data = registrations]]
    /\ DbUnchanged

\* authMiddleware / getAuthUser, then
\* await Registration.find({ userId: req.user._id }); the answer lists the
\* documents found.
ListMine(r) ==
    /\ CanStart(r)
    /\ \E caller \in workload.list :
          LET q == Receive(r, "list_mine", caller, "none", NoId, GarbageText)
          IN  req' = [req EXCEPT ![r] =
                IF ~Authenticated(caller)
                THEN Respond(q, 401, AuthFailure(caller))
                ELSE [Respond(q, 200, "") EXCEPT
                        !.data = {x \in registrations : x.userId = caller}]]
    /\ DbUnchanged

\* authMiddleware, adminMiddleware, then await Registration.find().
ListAll(r) ==
    /\ CanStart(r)
    /\ \E caller \in workload.list :
          LET q == Receive(r, "list_all", caller, "none", NoId, GarbageText)
          IN  req' = [req EXCEPT ![r] =
                IF ~Authenticated(caller)
                THEN Respond(q, 401, AuthFailure(caller))
                ELSE IF ~IsAdmin(caller)
                THEN Respond(q, 403, "Admin access required")
                ELSE [Respond(q, 200, "") EXCEPT !.data = registrations]]
    /\ DbUnchanged

(***************************************************************************)
(* POST /api/auth/register                                                 *)
(***************************************************************************)
\* The role member of the request body: absent, or one of the schema's enum.
RoleChoices == {Undefined, "user", "admin"}

\* User.findOne({ $or: [{ username }, { email }] }).
ExistingUser(username) ==
    username \in Users \/ \E a \in accounts : a.username = username

\* No middleware: const { username, ..., role } = req.body, then the lookup.
SignupStart(r) ==
    /\ CanStart(r)
    /\ \E username \in workload.signup : \E role \in RoleChoices :
          LET q == [Receive(r, "signup", Anonymous, "none", NoId, GarbageText)
                      EXCEPT !.username = username, !.role = role]
          IN  req' = [req EXCEPT ![r] =
                IF ExistingUser(username)
                THEN Respond(q, 400, "Username or email already exists")
                ELSE [q EXCEPT !.pc = "signup_create"]]
    /\ DbUnchanged

\* await User.create({ ..., role: role || "user" }); the unique index on
\* username rejects a second document (E11000) and the catch answers 500.
SignupCreate(r) ==
    /\ req[r].pc = "signup_create"
    /\ IF ExistingUser(req[r].username)
       THEN /\ req' = [req EXCEPT ![r] = Respond(req[r], 500, "E11000")]
            /\ UNCHANGED accounts
       ELSE /\ accounts' = accounts \cup
                  {[username |-> req[r].username,
                    role |-> IF req[r].role = Undefined THEN "user" ELSE req[r].role]}
            /\ req' = [req EXCEPT ![r] =
                  Respond(req[r], 201, "Registration successful")]
    /\ UNCHANGED <<backend, events, registrations, notifications, nextId, now,
                   workload, client>>

(***************************************************************************)
(* PATCH /api/notifications/:id/read                                       *)
(***************************************************************************)
\* Notification ids a caller can name.
KnownNotificationIds == 1..MaxRequests

\* authMiddleware / getAuthUser, then
\* await Notification.findByIdAndUpdate(id, { read: true }).
MarkRead(r) ==
    /\ CanStart(r)
    /\ \E caller \in workload.mark_read : \E id \in KnownNotificationIds :
          LET q == Receive(r, "mark_read", caller, "none", id, GarbageText)
          IN  IF ~Authenticated(caller)
              THEN /\ req' = [req EXCEPT ![r] = Respond(q, 401, AuthFailure(caller))]
                   /\ UNCHANGED notifications
              ELSE /\ notifications' =
                        {IF n.id = id THEN [n EXCEPT !.read = TRUE] ELSE n :
                           n \in notifications}
                   /\ req' = [req EXCEPT ![r] =
                        Respond(q, 200, "Notification marked as read")]
    /\ UNCHANGED <<backend, events, registrations, nextId, now, workload,
                   accounts, client>>

(***************************************************************************)
(* The system: any number of callers, any interleaving of the steps.       *)
(***************************************************************************)
Next ==
    \/ \E r \in Req : RegisterStart(r)
    \/ \E r \in Req : RegisterFindEvent(r)
    \/ \E r \in Req : RegisterCount(r)
    \/ \E r \in Req : RegisterCreate(r)
    \/ \E r \in Req : RegisterNotify(r)
    \/ \E r \in Req : RegisterNotifyFails(r)
    \/ \E r \in Req : CancelStart(r)
    \/ \E r \in Req : CancelDelete(r)
    \/ \E r \in Req : ScanStart(r)
    \/ \E r \in Req : ScanSave(r)
    \/ \E r \in Req : DeleteEventStart(r)
    \/ \E r \in Req : DeleteEventCascade(r)

Spec == Init /\ [][Next]_vars

SpecSeq == InitSeq /\ [][Next]_vars

SpecTwo == InitTwo /\ [][Next]_vars

\* The ledger routes together with the two read-only list routes.
NextGate ==
    \/ Next
    \/ \E r \in Req : ListMine(r)
    \/ \E r \in Req : ListAll(r)

SpecGate == InitGate /\ [][NextGate]_vars

SpecList == InitList /\ [][NextGate]_vars

\* The ledger routes together with the signup and the mark-as-read routes.
NextAccounts ==
    \/ Next
    \/ \E r \in Req : SignupStart(r)
    \/ \E r \in Req : SignupCreate(r)
    \/ \E r \in Req : MarkRead(r)

SpecAccounts == InitAccounts /\ [][NextAccounts]_vars

(***************************************************************************)
(* The browser: AppProvider, the router, the auth page and the two         *)
(* dashboards.  The browser sees the server through its answers.           *)
(***************************************************************************)
\* The longest chain of redirects that is followed.
MaxRedirects == 3

\* The most requests the visitor has started and not yet seen answered.
MaxFetches == 2

\* The paths of the router: the four routes and a path no route names.
Paths == {"/", "/auth", "/admin", "/dashboard", "/other"}

\* The accounts a visitor logs in to, and a username that no user holds.
Visitors == {"u1", "adm"}
Nobody == "nobody"

\* The events the dashboard lists.
Listed == {"e1"}

\* data.user of /api/auth/me and /api/auth/login.
UserOf(u) == [id |-> u, role |-> Role(u)]

\* fetch rejects: the catch of the caller runs.
NetworkError == Answer(0, "none", "Network error")

\* res.ok
Ok(res) == res.status \in 200..299

\* The answers of POST /api/registrations to the holder of a token.
RegisterAnswers(token) ==
    IF token \notin Users
    THEN {Answer(401, "none", "Authentication required")}
    ELSE {Answer(201, "none", "Registration successful"),
          Answer(400, "none", "Already registered for this event"),
          Answer(400, "none", "Event is at full capacity"),
          Answer(404, "none", "Event not found"),
          Answer(500, "none", "storage fault")}

\* The answers of POST /api/registrations/scan to the holder of a token.
ScanAnswers(token) ==
    IF token \notin Users
    THEN {Answer(401, "none", "Authentication required")}
    ELSE IF Role(token) # "admin"
    THEN {Answer(403, "none", "Admin access required")}
    ELSE {Answer(200, "true", "Attendance marked successfully"),
          Answer(200, "false", "Already scanned"),
          Answer(400, "false", "Invalid QR code format"),
          Answer(404, "false", "Registration not found"),
          Answer(500, "false", "TypeError")}

\* apiRequest(method, url, data): the request carries the cookie of the
\* moment it is sent.
Fetch(call, arg, token) ==
    [call |-> call, arg |-> arg, role |-> "none", token |-> token]

\* The truthiness of a JavaScript value: null is falsy, an object (a Promise
\* included) is truthy.
TruthyValue(v) == v.kind # "null"

\* An async function returns a Promise, whatever its body returns.
AsyncCall == PromiseValue

\* --- App.tsx ------------------------------------------------------------
Render(page) == [kind |-> "render", page |-> page, to |-> "none"]
RedirectTo(path) == [kind |-> "redirect", page |-> "none", to |-> path]

\* A guard that checks the login and not the role.
PrivateRoute_NoRoleTest(user, page, role) ==
    IF user = Null THEN RedirectTo("/auth") ELSE Render(page)

\* PrivateRoute({ component, role }).
PrivateRoute(user, page, role) ==
    IF user = Null THEN RedirectTo("/auth")
    ELSE IF role # Undefined /\ user.role # role THEN RedirectTo("/")
    ELSE Render(page)

\* A root route that sends every logged-in user to /admin.
RootRoute_AlwaysAdmin(user) ==
    IF user # Null THEN RedirectTo("/admin") ELSE RedirectTo("/auth")

\* <Route path="/">: a redirect to the dashboard of the user's role.
RootRoute(user) ==
    IF user # Null
    THEN RedirectTo(IF user.role = "admin" THEN "/admin" ELSE "/dashboard")
    ELSE RedirectTo("/auth")

\* <Switch>: the first route whose path matches.
Router(path, user) ==
    IF path = "/auth" THEN Render("AuthPage")
    ELSE IF path = "/admin" THEN PrivateRoute(user, "AdminDashboard", "admin")
    ELSE IF path = "/dashboard" THEN PrivateRoute(user, "UserDashboard", "user")
    ELSE IF path = "/" THEN RootRoute(user)
    ELSE Render("NotFound")

\* What the router shows now.
Shown == Router(location.path, store.user)

\* A page keeps its state while it stays mounted.
Remount(path, user) ==
    IF Router(path, user) = Shown THEN dashboard ELSE DashboardAtMount

\* The chain of redirects starts anew when the visitor navigates or the
\* current user changes.
Arrive(path, user) ==
    [path |-> path,
     redirects |-> IF path = location.path /\ user = store.user
                   THEN location.redirects ELSE 0]

\* The visitor follows a link or types a path.
Navigate ==
    /\ \E p \in Paths \ {location.path} :
          /\ location' = [path |-> p, redirects |-> 0]
          /\ dashboard' = Remount(p, store.user)
    /\ UNCHANGED <<backend, events, registrations, notifications, nextId, now,
                   req, workload, accounts, store, fetches, cookie>>

\* <Redirect to=...> is rendered: the location changes.
Redirect ==
    /\ Shown.kind = "redirect"
    /\ location.redirects < MaxRedirects
    /\ location' = [path |-> Shown.to, redirects |-> location.redirects + 1]
    /\ dashboard' = Remount(Shown.to, store.user)
    /\ UNCHANGED <<backend, events, registrations, notifications, nextId, now,
                   req, workload, accounts, store, fetches, cookie>>

\* --- store.tsx ----------------------------------------------------------
\* useEffect(..., [user]): the lists are loaded when a user is set.
UserEffect(user, token) ==
    IF user = Null THEN {}
    ELSE {Fetch("refreshRegistrations",
                IF user.role = "admin" THEN "all" ELSE "mine", token),
          Fetch("refreshNotifications", "none", token)}
         \cup (IF user.role = "admin"
               THEN {Fetch("refreshUsers", "none", token)} ELSE {})

CanSend == Cardinality(fetches) < MaxFetches

\* checkAuth of the mount effect: GET /api/auth/me, setUser if res.ok.
CheckAuthResolve ==
    \E f \in fetches : \E failed \in BOOLEAN :
        /\ f.call = "checkAuth"
        /\ IF ~failed /\ f.token \in Users
           THEN /\ store' = [store EXCEPT !.user = UserOf(f.token)]
                /\ fetches' = (fetches \ {f}) \cup UserEffect(UserOf(f.token), cookie)
                /\ location' = Arrive(location.path, UserOf(f.token))
                /\ dashboard' = Remount(location.path, UserOf(f.token))
           ELSE /\ fetches' = fetches \ {f}
                /\ UNCHANGED <<store, location, dashboard>>
        /\ UNCHANGED <<backend, events, registrations, notifications, nextId,
                       now, req, workload, accounts, cookie>>

\* handleLogin of the auth page: login(loginUsername, loginRole, loginPassword).
HandleLogin ==
    /\ Shown = Render("AuthPage")
    /\ CanSend
    /\ \A f \in fetches : f.call # "login"
    /\ \E username \in Visitors \cup {Nobody} : \E role \in {"user", "admin"} :
          fetches' = fetches \cup
             {[Fetch("login", username, cookie) EXCEPT !.role = role]}
    /\ UNCHANGED <<backend, events, registrations, notifications, nextId, now,
                   req, workload, accounts, store, location, dashboard, cookie>>

\* POST /api/auth/login answers; login sets the user and returns true, and
\* handleLogin then calls setLocation with the dashboard of the chosen role.
LoginResolve ==
    \E f \in fetches : \E failed \in BOOLEAN :
        /\ f.call = "login"
        /\ IF ~failed /\ f.arg \in Users /\ Role(f.arg) = f.role
           THEN LET user == UserOf(f.arg)
                    path == IF f.role = "admin" THEN "/admin" ELSE "/dashboard"
                IN  /\ cookie' = f.arg
                    /\ store' = [store EXCEPT !.user = user]
                    /\ fetches' = (fetches \ {f}) \cup UserEffect(user, f.arg)
                    /\ location' = [path |-> path, redirects |-> 0]
                    /\ dashboard' =
                          [DashboardAtMount EXCEPT !.toast = "Welcome back!"]
           ELSE /\ fetches' = fetches \ {f}
                /\ dashboard' = [dashboard EXCEPT !.toast = "Login Failed"]
                /\ UNCHANGED <<store, location, cookie>>
        /\ UNCHANGED <<backend, events, registrations, notifications, nextId,
                       now, req, workload, accounts>>

\* The Logout button of the Navbar: logout() sends POST /api/auth/logout.
Logout ==
    /\ store.user # Null
    /\ CanSend
    /\ fetches' = fetches \cup {Fetch("logout", "none", cookie)}
    /\ UNCHANGED <<backend, events, registrations, notifications, nextId, now,
                   req, workload, accounts, store, location, dashboard, cookie>>

\* The route clears the cookie and answers; logout then runs setUser(null),
\* setRegistrations([]), setNotifications([]) and the toast.  A rejected
\* fetch goes to the catch, which logs.
LogoutResolve ==
    \E f \in fetches : \E failed \in BOOLEAN :
        /\ f.call = "logout"
        /\ fetches' = fetches \ {f}
        /\ IF failed
           THEN UNCHANGED <<store, location, dashboard, cookie>>
           ELSE /\ cookie' = NoCookie
                /\ store' = [store EXCEPT !.user = Null, !.registrations = {},
                                          !.notifications = {}]
                /\ location' = Arrive(location.path, Null)
                /\ dashboard' = [Remount(location.path, Null) EXCEPT
                                   !.toast = "Logged out"]
        /\ UNCHANGED <<backend, events, registrations, notifications, nextId,
                       now, req, workload, accounts>>

\* The rows GET /api/registrations (mine) and /api/registrations/all can list.
ListedRows(scope, token) ==
    IF scope = "mine"
    THEN {[userId |-> token, eventId |-> e] : e \in Listed}
    ELSE {[userId |-> "u1", eventId |-> e] : e \in Listed}

\* refreshRegistrations: setRegistrations(data) if res.ok.
RefreshRegistrationsResolve ==
    \E f \in fetches : \E failed \in BOOLEAN :
        /\ f.call = "refreshRegistrations"
        /\ fetches' = fetches \ {f}
        /\ IF ~failed /\ f.token \in Users
              /\ (f.arg = "all" => Role(f.token) = "admin")
           THEN \E data \in SUBSET ListedRows(f.arg, f.token) :
                    store' = [store EXCEPT !.registrations = data]
           ELSE UNCHANGED store
        /\ UNCHANGED <<backend, events, registrations, notifications, nextId,
                       now, req, workload, accounts, location, dashboard, cookie>>

\* refreshNotifications: setNotifications(data) if res.ok.
RefreshNotificationsResolve ==
    \E f \in fetches : \E failed \in BOOLEAN :
        /\ f.call = "refreshNotifications"
        /\ fetches' = fetches \ {f}
        /\ IF ~failed /\ f.token \in Users
           THEN \E data \in SUBSET {[id |-> 1, userId |-> f.token]} :
                    store' = [store EXCEPT !.notifications = data]
           ELSE UNCHANGED store
        /\ UNCHANGED <<backend, events, registrations, notifications, nextId,
                       now, req, workload, accounts, location, dashboard, cookie>>

\* refreshUsers: GET /api/users lists every user to an admin; setUsers(data)
\* if res.ok.
RefreshUsersResolve ==
    \E f \in fetches : \E failed \in BOOLEAN :
        /\ f.call = "refreshUsers"
        /\ fetches' = fetches \ {f}
        /\ IF ~failed /\ f.token \in Users /\ Role(f.token) = "admin"
           THEN store' = [store EXCEPT !.users = Users]
           ELSE UNCHANGED store
        /\ UNCHANGED <<backend, events, registrations, notifications, nextId,
                       now, req, workload, accounts, location, dashboard, cookie>>

\* --- user-dashboard.tsx -------------------------------------------------
\* myEventIds
MyEventIds ==
    {x.eventId : x \in {y \in store.registrations : y.userId = store.user.id}}

\* handleOpenRegister(eventId)
HandleOpenRegister ==
    /\ Shown = Render("UserDashboard")
    /\ ~dashboard.isRegModalOpen /\ ~dashboard.successModalOpen
    /\ \E e \in Listed :
          dashboard' =
             IF e \in MyEventIds
             THEN [dashboard EXCEPT !.toast = "Already Registered"]
             ELSE [dashboard EXCEPT !.selectedEventId = e,
                                    !.isRegModalOpen = TRUE]
    /\ UNCHANGED <<backend, events, registrations, notifications, nextId, now,
                   req, workload, accounts, store, location, fetches, cookie>>

\* handleConfirmRegister: const reg = registerForEvent(selectedEventId,
\* formData); if (reg) { ... setSuccessModalOpen(true); toast(...) }.
\* registerForEvent sends POST /api/registrations.
HandleConfirmRegister ==
    /\ Shown = Render("UserDashboard")
    /\ dashboard.isRegModalOpen
    /\ dashboard.selectedEventId # "null"
    /\ CanSend
    /\ fetches' = fetches \cup
          {Fetch("registerForEvent", dashboard.selectedEventId, cookie)}
    /\ LET reg == AsyncCall
       IN  dashboard' =
             IF TruthyValue(reg)
             THEN [dashboard EXCEPT !.newRegistration = reg,
                                    !.isRegModalOpen = FALSE,
                                    !.successModalOpen = TRUE,
                                    !.toast = "Registration Successful!",
                                    !.answered = Pending]
             ELSE [dashboard EXCEPT !.answered = Pending]
    /\ UNCHANGED <<backend, events, registrations, notifications, nextId, now,
                   req, workload, accounts, store, location, cookie>>

\* The visitor closes the success dialog.
CloseSuccess ==
    /\ Shown = Render("UserDashboard")
    /\ dashboard.successModalOpen
    /\ dashboard' = [dashboard EXCEPT !.successModalOpen = FALSE]
    /\ UNCHANGED <<backend, events, registrations, notifications, nextId, now,
                   req, workload, accounts, store, location, fetches, cookie>>

\* The answer the page is waiting for, once it has arrived.
Heard(res) == IF dashboard.answered = Pending THEN res ELSE dashboard.answered

\* registerForEvent after the await: the new row and a toast if res.ok, the
\* failure toast otherwise and in the catch.
RegisterForEventResolve ==
    \E f \in fetches :
    \E res \in RegisterAnswers(f.token) \cup {NetworkError} :
        /\ f.call = "registerForEvent"
        /\ fetches' = fetches \ {f}
        /\ store' = IF Ok(res)
                    THEN [store EXCEPT !.registrations =
                            @ \cup {[userId |-> f.token, eventId |-> f.arg]}]
                    ELSE store
        /\ dashboard' =
              [dashboard EXCEPT
                 !.toast = IF Ok(res) THEN "Registration Confirmed"
                                      ELSE "Registration Failed",
                 !.answered = Heard(res)]
        /\ UNCHANGED <<backend, events, registrations, notifications, nextId,
                       now, req, workload, accounts, location, cookie>>

\* --- admin dashboard ----------------------------------------------------
\* startScanning
StartScanning ==
    /\ Shown = Render("AdminDashboard")
    /\ ~dashboard.isScanning
    /\ dashboard' = [dashboard EXCEPT !.isScanning = TRUE,
                                      !.scanResult = NullValue,
                                      !.answered = NoAnswer]
    /\ UNCHANGED <<backend, events, registrations, notifications, nextId, now,
                   req, workload, accounts, store, location, fetches, cookie>>

\* stopScanning
StopScanning ==
    /\ Shown = Render("AdminDashboard")
    /\ dashboard.isScanning
    /\ dashboard' = [dashboard EXCEPT !.isScanning = FALSE]
    /\ UNCHANGED <<backend, events, registrations, notifications, nextId, now,
                   req, workload, accounts, store, location, fetches, cookie>>

\* The scanner's success callback: const result = scanQRCode(decodedText);
\* setScanResult(result).  scanQRCode sends POST /api/registrations/scan.
Decoded ==
    /\ Shown = Render("AdminDashboard")
    /\ dashboard.isScanning
    /\ CanSend
    /\ fetches' = fetches \cup {Fetch("scanQRCode", "qr", cookie)}
    /\ LET result == AsyncCall
       IN  dashboard' = [dashboard EXCEPT !.scanResult = result,
                                          !.answered = Pending]
    /\ UNCHANGED <<backend, events, registrations, notifications, nextId, now,
                   req, workload, accounts, store, location, cookie>>

\* scanQRCode after the await: the lists are reloaded if data.success; the
\* data it returns settles the Promise that the callback stored.
ScanQRCodeResolve ==
    \E f \in fetches :
    \E res \in ScanAnswers(f.token) \cup {NetworkError} :
        /\ f.call = "scanQRCode"
        /\ fetches' = (fetches \ {f}) \cup
              (IF res.success = "true"
               THEN {Fetch("refreshRegistrations",
                           IF store.user.role = "admin" THEN "all" ELSE "mine",
                           cookie)}
               ELSE {})
        /\ dashboard' = [dashboard EXCEPT !.answered = Heard(res)]
        /\ UNCHANGED <<backend, events, registrations, notifications, nextId,
                       now, req, workload, accounts, store, location, cookie>>

\* scanResult && (scanResult.success ? "ACCESS GRANTED" : "ACCESS DENIED")
Verdict ==
    IF ~TruthyValue(dashboard.scanResult) THEN "none"
    ELSE IF Property(dashboard.scanResult, "success") = "true"
    THEN "ACCESS GRANTED"
    ELSE "ACCESS DENIED"

\* <p>{scanResult.message}</p>
VerdictMessage == Property(dashboard.scanResult, "message")

\* The page is loaded at any path, with or without a session cookie; the
\* mount effect has sent GET /api/auth/me.  The answers the browser gets are
\* drawn from the routes' answers, whichever entry point and catalog lie
\* behind them.
InitBrowser ==
    /\ backend = "server"
    /\ events = [e \in EventIds |-> [exists |-> TRUE, capacity |-> {}]]
    /\ registrations = {}
    /\ notifications = {}
    /\ nextId = 1
    /\ now = 1
    /\ req = [r \in 1..MaxRequests |-> IdleRequest]
    /\ workload = LedgerWorkload
    /\ accounts = {}
    /\ store = EmptyStore
    /\ location \in [path : Paths, redirects : {0}]
    /\ dashboard = DashboardAtMount
    /\ cookie \in {NoCookie} \cup Visitors
    /\ fetches = {Fetch("checkAuth", "none", cookie)}

NextBrowser ==
    \/ Navigate
    \/ Redirect
    \/ CheckAuthResolve
    \/ HandleLogin
    \/ LoginResolve
    \/ Logout
    \/ LogoutResolve
    \/ RefreshRegistrationsResolve
    \/ RefreshNotificationsResolve
    \/ RefreshUsersResolve
    \/ HandleOpenRegister
    \/ HandleConfirmRegister
    \/ CloseSuccess
    \/ RegisterForEventResolve
    \/ StartScanning
    \/ StopScanning
    \/ Decoded
    \/ ScanQRCodeResolve

SpecBrowser == InitBrowser /\ [][NextBrowser]_vars

\* The router, the session and the lists, without the dashboards' dialogs.
NextRouter ==
    \/ Navigate
    \/ Redirect
    \/ CheckAuthResolve
    \/ HandleLogin
    \/ LoginResolve
    \/ Logout
    \/ LogoutResolve
    \/ RefreshRegistrationsResolve
    \/ RefreshNotificationsResolve
    \/ RefreshUsersResolve

SpecRouter == InitBrowser /\ [][NextRouter]_vars

(***************************************************************************)
(* Reading the requests: outcomes in the vocabulary of the specification.  *)
(***************************************************************************)
Done(r) == req[r].pc = "done"

Started == {r \in Req : req[r].pc # "idle"}

Calls(route) == {r \in Req : req[r].route = route}

Registered(r) == req[r].route = "register" /\ Done(r) /\ req[r].status = 201

AlreadyRegistered(r) ==
    /\ req[r].route = "register" /\ Done(r) /\ req[r].status = 400
    /\ req[r].message = "Already registered for this event"

CapacityExceeded(r) ==
    /\ req[r].route = "register" /\ Done(r) /\ req[r].status = 400
    /\ req[r].message = "Event is at full capacity"

StorageFault(r) == Done(r) /\ req[r].status = 500 /\ req[r].message = "storage fault"

Granted(r) == req[r].route = "scan" /\ Done(r) /\ req[r].success = "true"

AlreadyScanned(r) ==
    /\ req[r].route = "scan" /\ Done(r) /\ req[r].status = 200
    /\ req[r].success = "false" /\ req[r].message = "Already scanned"

InvalidFormat(r) ==
    /\ req[r].route = "scan" /\ Done(r) /\ req[r].status = 400
    /\ req[r].success = "false" /\ req[r].message = "Invalid QR code format"

(***************************************************************************)
(* Invariant I1: uniqueness.                                               *)
(***************************************************************************)
\* C1: in every reachable state, under any interleaving of register, cancel,
\* scan and event-delete requests, the Registration collection holds at most
\* one document for each (user, event) pair.
C1_OneRegistrationPerPair ==
    \A x, y \in registrations :
        (x.userId = y.userId /\ x.eventId = y.eventId) => x = y

\* Two register calls of one user for one event both reached the insert: one
\* created the registration, the unique index rejected the other.
C1_Witness ==
    \E r, s \in Req :
        /\ r # s
        /\ req[r].route = "register" /\ req[s].route = "register"
        /\ req[r].caller = req[s].caller /\ req[r].eventId = req[s].eventId
        /\ Done(s) /\ req[s].status = 500 /\ req[s].message = "E11000 duplicate key"
        /\ \E x \in registrations : x.id = req[r].body \/ x.id = req[r].doc

(***************************************************************************)
(* Invariant I2: capacity.                                                 *)
(***************************************************************************)
\* C2: for every event with a finite capacity C, under any interleaving of
\* concurrent register calls, the number of Registrations of the event never
\* exceeds C.  Stated for C >= 1: capacity 0 is the subject of C26.
C2_CapacityNeverExceeded ==
    \A e \in EventIds : \A c \in events[e].capacity :
        c >= 1 => CountDocuments(e) <= c

(***************************************************************************)
(* Scan atomicity.                                                         *)
(***************************************************************************)
\* C3: over the whole life of a registration at most one scan reports
\* granted:true; of two concurrent scans of one pending registration the other
\* reports AlreadyScanned or an equivalent rejection.
C3_AtMostOneGrant ==
    \A r, s \in Req :
        (Granted(r) /\ Granted(s) /\ req[r].body = req[s].body) => r = s

(***************************************************************************)
(* Uniqueness under concurrent register calls.                             *)
(***************************************************************************)
\* The register calls of user u for event e.
RegisterCalls(u, e) ==
    {r \in Calls("register") : req[r].caller = u /\ req[r].eventId = e}

\* C4: when N >= 2 register(u, e) calls for an existing event are all the
\* requests there are and all have answered (none with a storage fault of the
\* notification), exactly one has succeeded and each other one reports
\* AlreadyRegistered.
C4_OneWinnerOthersAlreadyRegistered ==
    \A u \in Attendees, e \in EventIds :
        LET calls == RegisterCalls(u, e)
        IN  ( /\ events[e].exists
              /\ Started = calls
              /\ Cardinality(calls) >= 2
              /\ \A r \in calls : Done(r) /\ ~StorageFault(r) )
            => /\ Cardinality({r \in calls : Registered(r)}) = 1
               /\ \A r \in calls : Registered(r) \/ AlreadyRegistered(r)

(***************************************************************************)
(* Capacity under concurrent register calls.                               *)
(***************************************************************************)
\* C5: for an event with capacity C >= 1 and no registration, when C+K
\* register calls from distinct users are all the requests there are and all
\* have answered (none with a storage fault of the notification), exactly C
\* have succeeded and the K others report CapacityExceeded.
C5_ExactlyCapacityManySucceed ==
    \A e \in EventIds : \A c \in events[e].capacity :
        LET calls == {r \in Calls("register") : req[r].eventId = e}
        IN  ( /\ c >= 1
              /\ Started = calls
              /\ Cardinality(calls) >= c
              /\ \A r, s \in calls : req[r].caller = req[s].caller => r = s
              /\ \A r \in calls : Done(r) /\ ~StorageFault(r) )
            => /\ Cardinality({r \in calls : Registered(r)}) = c
               /\ \A r \in calls : Registered(r) \/ CapacityExceeded(r)

(***************************************************************************)
(* Invariant I3: the attendance transition.                                *)
(***************************************************************************)
\* scannedAt is set if and only if the status is attended.
StampedIffAttended ==
    \A x \in registrations : (x.scannedAt # NoDate) <=> (x.status = "attended")

\* A step never takes a registration out of attended.
NeverReverses ==
    \A x \in registrations : \A y \in registrations' :
        (x.id = y.id /\ x.status = "attended") => y.status = "attended"

\* C6: a registration's status only ever changes from pending to attended and
\* never back, and in every reachable state a registration has scannedAt set
\* if and only if its status is attended.
C6_PendingToAttendedOnly == [](StampedIffAttended) /\ [][NeverReverses]_vars

\* A scan has marked a registration attended and stamped it, while another
\* registration is still pending.
C6_Witness ==
    /\ \E r \in Req : Granted(r)
    /\ \E x \in registrations : x.status = "attended" /\ x.scannedAt # NoDate
    /\ \E x \in registrations : x.status = "pending"

(***************************************************************************)
(* Scan idempotence.                                                       *)
(***************************************************************************)
\* Once a scan of a credential has reported granted:true, every later scan of
\* the same credential, while that registration exists, reports AlreadyScanned
\* together with the registration, and the registration keeps the status and
\* the scannedAt that the first scan set.
RepeatedScanIsAlreadyScanned ==
    \A r, s \in Req :
        ( /\ r < s
          /\ Granted(r)
          /\ req[s].route = "scan" /\ Done(s) /\ req[s].qrData = req[r].qrData
          /\ FindById(req[r].body) # {} )
        => /\ AlreadyScanned(s)
           /\ req[s].body = req[r].body
           /\ \A x \in FindById(req[r].body) :
                 x.status = "attended" /\ x.scannedAt = req[r].date

\* An admin's scan of the stored credential of a pending registration goes on
\* to the save, and the save marks that registration attended, stamps it and
\* reports granted:true; a scan that reports AlreadyScanned writes nothing.
FirstScanGrants ==
    \A r \in Req :
        /\ ( /\ req[r].pc = "idle" /\ req'[r].route = "scan"
             /\ IsAdmin(req'[r].caller) )
           => /\ \A x \in registrations :
                   (x.qrCodeData = req'[r].qrData /\ x.status = "pending")
                   => (req'[r].pc = "scan_save" /\ req'[r].doc = x.id)
              /\ registrations' = registrations
        /\ (req[r].pc = "scan_save" /\ req'[r].pc = "done")
           => /\ req'[r].success = "true" /\ req'[r].body = req[r].doc
              /\ \E x \in registrations' :
                   /\ x.id = req[r].doc /\ x.status = "attended"
                   /\ x.scannedAt = req[r].date

\* C7: with sequential callers (SpecSeq: each request is answered before the
\* next is issued, so requests are answered in slot order), scan(token) of a
\* valid pending registration yields granted:true on the first call and
\* granted:false with reason AlreadyScanned, together with the existing
\* registration, on the second and every later call; the later calls change
\* nothing.
C7_RepeatedScanIsAlreadyScanned ==
    [](RepeatedScanIsAlreadyScanned) /\ [][FirstScanGrants]_vars

\* A register, then three scans of its credential: granted, AlreadyScanned,
\* AlreadyScanned.
C7_Witness ==
    \E x \in registrations :
        /\ Registered(1) /\ req[1].body = x.id
        /\ \A s \in {2, 3, 4} : req[s].route = "scan" /\ req[s].qrData = x.qrCodeData
        /\ Granted(2) /\ AlreadyScanned(3) /\ AlreadyScanned(4)
        /\ x.scannedAt = req[2].date

(***************************************************************************)
(* Cascade.                                                                *)
(***************************************************************************)
\* C8: after an event delete request has completed, no Registration
\* referencing the deleted event exists, in that state and in every later one.
C8_NoOrphanAfterDelete ==
    \A r \in Calls("delete_event") :
        (Done(r) /\ req[r].status = 200)
        => \A x \in registrations : x.eventId # req[r].eventId

(***************************************************************************)
(* Decode robustness.                                                      *)
(***************************************************************************)
\* C9: a scan by the admin of any text that is not a well-formed encoding of a
\* (user, event) pair answers granted=false with reason InvalidFormat.
C9_MalformedIsInvalidFormat ==
    \A r \in Calls("scan") :
        (Done(r) /\ IsAdmin(req[r].caller) /\ req[r].qrData \in MalformedTexts)
        => InvalidFormat(r)

(***************************************************************************)
(* Authorization of cancel.                                                *)
(***************************************************************************)
\* The user whose register call created registration id.
OwnerOf(id) ==
    {req[r].caller : r \in {c \in Calls("register") : req[c].body = id \/ req[c].doc = id}}

\* C10: cancel deletes the registration if and only if the requester is the
\* owning user or holds the admin role.  A cancel that answered 200 came from
\* the owner or an admin; a cancel that has answered while the registration it
\* names still exists came from a requester who is neither and answered
\* NotAuthorized (403).
C10_CancelByOwnerOrAdminOnly ==
    \A r \in Calls("cancel") :
        (Done(r) /\ Authenticated(req[r].caller))
        => /\ req[r].status = 200
                => (IsAdmin(req[r].caller) \/ req[r].caller \in OwnerOf(req[r].id))
           /\ \A x \in FindById(req[r].id) :
                 /\ ~IsAdmin(req[r].caller) /\ x.userId # req[r].caller
                 /\ req[r].status = 403

(***************************************************************************)
(* Cancellation and the status.                                            *)
(***************************************************************************)
\* The delete of a cancel call removes no registration that is attended.
CancelDeletesOnlyPending ==
    \A r \in Req :
        (req[r].route = "cancel" /\ req[r].pc = "cancel_delete" /\ req'[r].pc = "done")
        => \A x \in registrations :
              (x.status = "attended") => (x \in registrations')

\* C11: explicit cancellation removes a registration only while its status is
\* pending: no cancel call ever deletes a registration whose status is
\* attended.
C11_CancelOnlyWhilePending == [][CancelDeletesOnlyPending]_vars

(***************************************************************************)
(* Scan of a credential without a registration.                            *)
(***************************************************************************)
\* The text decodes to a (user, event) pair.
DecodesToPair(text) ==
    text.kind = "object" /\ {"uid", "eid"} \subseteq DOMAIN text.members

\* No registration is stored for the pair the text decodes to.
Unmatched(text) ==
    ~\E x \in registrations :
        x.userId = text.members.uid /\ x.eventId = text.members.eid

\* The admin's scan of a pair without a registration answers 404, success
\* false, "Registration not found" and no registration, and writes nothing.
UnmatchedScanIsNotFound ==
    \A r \in Req :
        ( /\ req[r].pc = "idle" /\ req'[r].route = "scan"
          /\ IsAdmin(req'[r].caller)
          /\ DecodesToPair(req'[r].qrData) /\ Unmatched(req'[r].qrData) )
        => /\ req'[r].pc = "done" /\ req'[r].status = 404
           /\ req'[r].success = "false"
           /\ req'[r].message = "Registration not found"
           /\ req'[r].body = NoId /\ req'[r].data = {}
           /\ UNCHANGED <<registrations, notifications, events>>

EventNotFound(r) ==
    /\ req[r].route = "register" /\ Done(r) /\ req[r].status = 404
    /\ req[r].message = "Event not found"
    /\ req[r].body = NoId /\ req[r].doc = NoId

\* C13: register(u, e) for an event e that is absent from the catalog is
\* always rejected with EventNotFound and creates no Registration, whatever
\* registrations exist at that moment.  Requests are issued in slot order and
\* the admin's event delete removes the event in its first step, so a register
\* call in a later slot than the delete was issued with the event absent.
C13_AbsentEventIsEventNotFound ==
    \A s \in Calls("delete_event") : \A r \in Calls("register") :
        ( /\ s < r
          /\ IsAdmin(req[s].caller)
          /\ req[s].eventId = req[r].eventId
          /\ Authenticated(req[r].caller)
          /\ Done(r) )
        => EventNotFound(r)

(***************************************************************************)
(* The sequential scenario.                                                *)
(***************************************************************************)
\* The registration that register call r created.
CreatedBy(r) == {x \in registrations : x.id = req[r].body}

\* The four calls of the scenario, as far as they have been issued: A = u1
\* registers for the event, B = u2 registers for it, the admin scans the
\* credential A's register stored, the admin scans it again.  The storage
\* serves every call.
ScenarioIssued(n) ==
    /\ events["e1"].capacity = {1}
    /\ \A r \in 1..n : Done(r) /\ ~StorageFault(r)
    /\ \A r \in Req : r > n => req[r].pc = "idle"
    /\ n >= 1 => /\ req[1].route = "register" /\ req[1].caller = "u1"
                 /\ req[1].eventId = "e1"
    /\ n >= 2 => /\ req[2].route = "register" /\ req[2].caller = "u2"
                 /\ req[2].eventId = "e1"
    /\ \A r \in 3..n :
          /\ req[r].route = "scan" /\ req[r].caller = "adm"
          /\ \E x \in CreatedBy(1) : req[r].qrData = x.qrCodeData

\* C14: the sequential scenario.  On an event with capacity 1 and no
\* registrations A's register succeeds with status pending; B's register is
\* then rejected with CapacityExceeded; an admin scan of A's token returns
\* granted:true and A's status becomes attended; a second admin scan of A's
\* token returns granted:false with AlreadyScanned.
C14_SequentialScenario ==
    /\ ScenarioIssued(1)
          => Registered(1) /\ \E x \in CreatedBy(1) :
                                 x.userId = "u1" /\ x.status = "pending"
    /\ ScenarioIssued(2)
          => CapacityExceeded(2) /\ CountDocuments("e1") = 1
    /\ ScenarioIssued(3)
          => Granted(3) /\ \E x \in CreatedBy(1) :
                              req[3].body = x.id /\ x.status = "attended"
    /\ ScenarioIssued(4)
          => /\ AlreadyScanned(4)
             /\ \E x \in CreatedBy(1) :
                   x.status = "attended" /\ x.scannedAt = req[3].date

\* The scenario has run to its end.
C14_Witness ==
    /\ ScenarioIssued(4)
    /\ Registered(1) /\ CapacityExceeded(2) /\ Granted(3) /\ AlreadyScanned(4)

(***************************************************************************)
(* Scan is for admins.                                                     *)
(***************************************************************************)
\* The requester holds a session of a user whose role is admin.
HoldsAdminRole(caller) == caller \in Users /\ Role(caller) = "admin"

\* A scan by a requester without the admin role is answered at once, 401
\* without a session and 403 with one, grants nothing and writes nothing.
NonAdminScanRejected ==
    \A r \in Req :
        ( /\ req[r].pc = "idle" /\ req'[r].route = "scan"
          /\ ~HoldsAdminRole(req'[r].caller) )
        => /\ req'[r].pc = "done"
           /\ req'[r].status = IF req'[r].caller \in Users THEN 403 ELSE 401
           /\ req'[r].success # "true" /\ req'[r].body = NoId
           /\ registrations' = registrations

\* Every change of a registration's status or scannedAt is the save of a scan
\* request of an admin.
OnlyAdminScanMarks ==
    \A x \in registrations : \A y \in registrations' :
        (x.id = y.id /\ (x.status # y.status \/ x.scannedAt # y.scannedAt))
        => \E r \in Req :
              /\ req[r].route = "scan" /\ req[r].pc = "scan_save"
              /\ req'[r].pc = "done" /\ req[r].doc = x.id
              /\ HoldsAdminRole(req[r].caller)

\* C15: a scan request changes a registration only when the requester is
\* authenticated and holds the admin role; a scan by an unauthenticated caller
\* or by a user with role user is rejected (401 or 403) and leaves every
\* registration's status and scannedAt unchanged.
C15_ScanIsAdminOnly == [][NonAdminScanRejected /\ OnlyAdminScanMarks]_vars

\* A user with role user has scanned while a registration was pending: 403,
\* and the registration is still pending and unstamped.
C15_Witness ==
    \E r \in Calls("scan") :
        /\ Done(r) /\ req[r].caller = "u1" /\ req[r].status = 403
        /\ \E x \in registrations : x.status = "pending" /\ x.scannedAt = NoDate

(***************************************************************************)
(* Notification of a registration.                                         *)
(***************************************************************************)
\* The registration-confirmed notifications addressed to user u.
Confirmations(u) ==
    {n \in notifications : n.userId = u /\ n.title = "Registration Confirmed"}

\* C16: every successful register call emits exactly one
\* registration-confirmed notification addressed to the registering user, and
\* a rejected register call emits none, on both entry points: each user has
\* as many confirmations as register calls answered with success.
C16_OneNotificationPerRegistration ==
    \A u \in Users :
        Cardinality(Confirmations(u))
            = Cardinality({r \in Calls("register") :
                             Registered(r) /\ req[r].caller = u})

(***************************************************************************)
(* A notification that fails.                                              *)
(***************************************************************************)
\* C17: if emitting the registration-confirmed notification fails after the
\* Registration row has been created, the registration is not rolled back:
\* the row the call created stays in the ledger in status pending, until a
\* cancel or an event delete removes it or a scan marks it attended.
C17_NotifyFailureKeepsRegistration ==
    \A r \in Calls("register") :
        StorageFault(r)
        => \/ \E x \in registrations :
                /\ x.id = req[r].doc /\ x.userId = req[r].caller
                /\ x.eventId = req[r].eventId
                /\ \/ x.status = "pending"
                   \/ \E s \in Calls("scan") : Granted(s) /\ req[s].body = x.id
           \/ \E s \in Calls("cancel") :
                Done(s) /\ req[s].status = 200 /\ req[s].doc = req[r].doc
           \/ \E s \in Calls("delete_event") :
                Done(s) /\ req[s].status = 200 /\ req[s].eventId = req[r].eventId

\* A register call was answered 500 because the notification failed, the row
\* it created is stored and pending, and no notification was stored.
C17_Witness ==
    \E r \in Calls("register") :
        /\ StorageFault(r)
        /\ \E x \in registrations : x.id = req[r].doc /\ x.status = "pending"
        /\ Confirmations(req[r].caller) = {}

(***************************************************************************)
(* Rejections change nothing.                                              *)
(***************************************************************************)
\* The answer q of a register, cancel or scan call is a validation, conflict,
\* not-found or authorization rejection.
IsRejection(q) ==
    /\ q.route \in {"register", "cancel", "scan"}
    /\ \/ q.status \in {400, 401, 403, 404}
       \/ q.status = 500 /\ q.message = "E11000 duplicate key"

\* The step that answers a rejection writes nothing, and the rejected call
\* wrote nothing before it: doc and body, which name the registration a call
\* has written or is about to write, are still unset.
RejectionWritesNothing ==
    \A r \in Req :
        (req[r].pc # "done" /\ req'[r].pc = "done" /\ IsRejection(req'[r]))
        => /\ registrations' = registrations
           /\ req'[r].doc = NoId /\ req'[r].body = NoId

\* C18: a register, cancel or scan call that ends in a validation, conflict,
\* not-found or authorization rejection leaves the set of registrations and
\* every registration's status and scannedAt exactly as they were.
C18_RejectionsChangeNothing == [][RejectionWritesNothing]_vars

\* A cancel of a stored registration was turned away (403 or 404) and the
\* registration is still stored.
C18_Witness ==
    \E r \in Calls("cancel") :
        /\ Done(r) /\ req[r].status \in {403, 404}
        /\ FindById(req[r].id) # {}

(***************************************************************************)
(* Requests without a valid session.                                       *)
(***************************************************************************)
SessionRoutes == {"register", "cancel", "list_mine", "list_all", "scan"}

\* A request without a valid session is answered 401 at once, with no
\* registration in the answer, and writes nothing.
SessionlessIsRejected ==
    \A r \in Req :
        ( /\ req[r].pc = "idle" /\ req'[r].route \in SessionRoutes
          /\ req'[r].caller \in Sessionless )
        => /\ req'[r].pc = "done" /\ req'[r].status = 401
           /\ req'[r].data = {} /\ req'[r].body = NoId /\ req'[r].doc = NoId
           /\ UNCHANGED <<events, registrations, notifications, nextId>>

\* List-all answers with data only to a requester who holds the admin role,
\* and then with every registration.
ListAllIsForAdmins ==
    \A r \in Req :
        (req[r].pc = "idle" /\ req'[r].route = "list_all")
        => IF HoldsAdminRole(req'[r].caller)
           THEN req'[r].status = 200 /\ req'[r].data = registrations
           ELSE req'[r].status \in {401, 403} /\ req'[r].data = {}

\* C19: a register, cancel, list-mine, list-all or scan request that carries
\* no valid session token (missing, invalid or expired, or naming a user that
\* no longer exists) is rejected with 401, returns no registration data and
\* changes no state; list-all returns data only to a requester with the admin
\* role.
C19_NoSessionIs401 == [][SessionlessIsRejected /\ ListAllIsForAdmins]_vars

\* While a registration is stored, a list request whose token names a user
\* that no longer exists was answered 401 without data.
C19_Witness ==
    /\ registrations # {}
    /\ \E r \in Calls("list_mine") \cup Calls("list_all") :
          /\ Done(r) /\ req[r].caller = Departed
          /\ req[r].status = 401 /\ req[r].data = {}

(***************************************************************************)
(* The two entry points.                                                   *)
(***************************************************************************)
\* C20: the Express routes and the serverless handler implement the same
\* ledger: started from the same state and given the same request from the
\* same requester, both return the same outcome class and make the same
\* change.  Stated where the two have code of their own for the same step,
\* the lookup of cancel: in every reachable state and for every user and
\* every registration id, both lookups give the same answer and the same
\* continuation.
C20_EntryPointsAgree ==
    \A in \in Users \X KnownIds :
        LET q == Receive(1, "cancel", in[1], "none", in[2], GarbageText)
        IN  CancelFindServer(q) = CancelFindApi(q)

(***************************************************************************)
(* A stale credential.                                                     *)
(***************************************************************************)
\* The text is a credential some register call minted and no stored
\* registration carries.
IsStale(text) == text \in MintedTexts \ IssuedTexts

\* The admin's scan of a stale credential, while the same user holds a newer
\* pending registration for the same event, is taken for that registration,
\* and its save marks the newer registration attended and reports granted.
StaleResolvesToNewer ==
    \A r \in Req :
        /\ ( /\ req[r].pc = "idle" /\ req'[r].route = "scan"
             /\ IsAdmin(req'[r].caller) /\ IsStale(req'[r].qrData) )
           => \A x \in registrations :
                 ( /\ x.userId = req'[r].qrData.members.uid
                   /\ x.eventId = req'[r].qrData.members.eid
                   /\ x.status = "pending" )
                 => req'[r].pc = "scan_save" /\ req'[r].doc = x.id
        /\ ( /\ req[r].pc = "scan_save" /\ req'[r].pc = "done"
             /\ IsStale(req[r].qrData) )
           => /\ req'[r].success = "true" /\ req'[r].body = req[r].doc
              /\ \E x \in registrations' :
                    /\ x.id = req[r].doc /\ x.status = "attended"
                    /\ x.qrCodeData # req[r].qrData

\* C21: a credential minted for a registration that is later cancelled is not
\* bound to that registration's identity: after the same user registers again
\* for the same event, scanning the old credential resolves to the newer
\* registration and marks it attended (callers one at a time).
C21_StaleCredentialResolvesToNewer == [][StaleResolvesToNewer]_vars

\* u1 registered, cancelled, registered again; the scan of the first
\* credential was granted for the second registration.
C21_Witness ==
    /\ Registered(1) /\ Registered(3) /\ req[1].caller = req[3].caller
    /\ req[2].route = "cancel" /\ Done(2) /\ req[2].status = 200
    /\ req[2].id = req[1].body
    /\ Granted(4) /\ req[4].body = req[3].body /\ req[4].body # req[1].body
    /\ req[4].qrData = MintCredential(backend, req[1].caller, req[1].eventId,
                                      req[1].date)
    /\ \E x \in registrations :
          x.id = req[3].body /\ x.status = "attended" /\ x.qrCodeData # req[4].qrData

(***************************************************************************)
(* Independence of events.                                                 *)
(***************************************************************************)
\* The events a request targets: the event a register or an event delete
\* names, the event of the registration a cancel names, the event a scanned
\* credential names.
Target(q) ==
    IF q.route \in {"register", "delete_event"} THEN {q.eventId}
    ELSE IF q.route = "cancel" THEN {x.eventId : x \in FindById(q.id)}
    ELSE IF q.route = "scan" /\ DecodesToPair(q.qrData) THEN {q.qrData.members.eid}
    ELSE {}

\* A step of a request creates, deletes and changes no registration of an
\* event the request does not target.
OtherEventsUntouched ==
    \A r \in Req :
        req'[r] # req[r]
        => \A x \in registrations \cup registrations' :
              x.eventId \notin Target(req'[r])
              => (x \in registrations /\ x \in registrations')

\* The answers of register depend on the registrations of its own event
\* alone: AlreadyRegistered exactly when the caller has a registration for
\* the event, CapacityExceeded exactly when the registrations of the event
\* are as many as the capacity read.
RegisterReadsOwnEvent ==
    \A r \in Req :
        LET own == {x \in registrations : x.eventId = req'[r].eventId}
        IN  /\ ( /\ req[r].pc = "idle" /\ req'[r].route = "register"
                 /\ Authenticated(req'[r].caller) )
               => ( (req'[r].pc = "done" /\ req'[r].status = 400)
                    <=> \E x \in own : x.userId = req'[r].caller )
            /\ (req[r].pc = "register_count" /\ req'[r].pc # "register_count")
               => ( (req'[r].pc = "done" /\ req'[r].status = 400)
                    <=> \E c \in req[r].capacity : Cardinality(own) >= c )

\* C22: operations on different events are independent: a register, cancel
\* or scan that targets event e1 never creates, deletes or changes a
\* Registration of another event e2, and the outcome of a register for e1 does
\* not depend on the registrations of e2.
C22_EventsAreIndependent ==
    [][OtherEventsUntouched /\ RegisterReadsOwnEvent]_vars

\* While e2 holds a registration, a register for e1 with capacity 1 succeeded
\* and its registration was then cancelled; the registration of e2 is stored
\* as it was created.
C22_Witness ==
    /\ events["e1"].capacity = {1}
    /\ Registered(1) /\ req[1].eventId = "e2"
    /\ Registered(2) /\ req[2].eventId = "e1"
    /\ req[3].route = "cancel" /\ Done(3) /\ req[3].status = 200
    /\ req[3].id = req[2].body
    /\ \E x \in registrations :
          x.id = req[1].body /\ x.eventId = "e2" /\ x.status = "pending"

(***************************************************************************)
(* Cancel under retry.                                                     *)
(***************************************************************************)
\* A step of a cancel call deletes nothing but the registration the call
\* names, and creates and changes nothing.
CancelDeletesOnlyItsOwn ==
    \A r \in Req :
        (req'[r] # req[r] /\ req'[r].route = "cancel")
        => /\ registrations' \subseteq registrations
           /\ \A x \in registrations \ registrations' : x.id = req'[r].id

\* A cancel issued after a cancel of the same registration has answered 200
\* answers NotFound and writes nothing.
RepeatedCancelIsNotFound ==
    \A r \in Req :
        ( /\ req[r].pc = "idle" /\ req'[r].route = "cancel"
          /\ Authenticated(req'[r].caller)
          /\ \E s \in Calls("cancel") :
                Done(s) /\ req[s].status = 200 /\ req[s].id = req'[r].id )
        => /\ req'[r].pc = "done" /\ req'[r].status = 404
           /\ registrations' = registrations

\* C23: cancellation is idempotent under retry: repeating a cancel after it
\* has succeeded, or running two such cancels concurrently, never deletes any
\* other registration and leaves the ledger as the first successful cancel
\* left it; a repeat issued after completion reports NotFound.
C23_CancelIsIdempotent ==
    [][CancelDeletesOnlyItsOwn /\ RepeatedCancelIsNotFound]_vars

\* A cancel answered 200; the same requester's repeat for the same
\* registration answered 404, and the registration is gone.
C23_Witness ==
    \E s, r \in Calls("cancel") :
        /\ s < r /\ req[s].id = req[r].id /\ req[s].caller = req[r].caller
        /\ Done(s) /\ req[s].status = 200
        /\ Done(r) /\ req[r].status = 404
        /\ FindById(req[r].id) = {}

(***************************************************************************)
(* Credential round trip.                                                  *)
(***************************************************************************)
\* C24: for every stored Registration, decoding its stored credential yields
\* exactly that registration's own user and event, and the lookup the scan
\* route makes with them finds that registration; a scan of the stored
\* credential that answered with a registration answered with that one.
C24_CredentialRoundTrip ==
    \A x \in registrations :
        LET parsed == JSONparse(x.qrCodeData)
        IN  /\ ~parsed.threw /\ ~PropertyThrows(parsed)
            /\ Property(parsed, "uid") = x.userId
            /\ Property(parsed, "eid") = x.eventId
            /\ FindOneByUserEvent(Property(parsed, "uid"), Property(parsed, "eid")) = x.id
            /\ \A s \in Calls("scan") :
                  (Done(s) /\ req[s].qrData = x.qrCodeData /\ req[s].body # NoId)
                  => req[s].body = x.id

\* The credential a register call stored was scanned and the scan was granted
\* for the registration that call created.
C24_Witness ==
    \E r \in Calls("register") : \E s \in Calls("scan") : \E x \in registrations :
        /\ Registered(r) /\ req[r].body = x.id
        /\ x.qrCodeData = MintCredential(backend, req[r].caller, req[r].eventId,
                                         req[r].date)
        /\ req[s].qrData = x.qrCodeData /\ Granted(s) /\ req[s].body = x.id

(***************************************************************************)
(* Capacity: absent and zero.                                              *)
(***************************************************************************)
\* C25: for an event whose capacity is absent, register is never rejected
\* with CapacityExceeded, however many registrations the event already has.
C25_AbsentCapacityIsUnbounded ==
    \A r \in Calls("register") :
        events[req[r].eventId].capacity = {} => ~CapacityExceeded(r)

\* Every attendee has registered for an event without a capacity.
C25_Witness ==
    /\ events["e1"].capacity = {}
    /\ \A u \in Attendees :
          \E r \in Calls("register") :
              Registered(r) /\ req[r].caller = u /\ req[r].eventId = "e1"
    /\ CountDocuments("e1") = Cardinality(Attendees)

\* C26: capacity is an upper bound for every finite value, zero included: for
\* an event whose capacity is present and equal to 0, every register call is
\* rejected with CapacityExceeded and the event never has a Registration.
C26_ZeroCapacityRejectsAll ==
    \A e \in EventIds :
        events[e].capacity = {0}
        => /\ \A x \in registrations : x.eventId # e
           /\ \A r \in Calls("register") :
                 ( /\ Done(r) /\ req[r].eventId = e /\ Authenticated(req[r].caller)
                   /\ events[e].exists /\ ~StorageFault(r) )
                 => CapacityExceeded(r)

(***************************************************************************)
(* List mine.                                                              *)
(***************************************************************************)
\* The answer of list-mine to an authenticated requester holds the stored
\* registrations of that requester, all of them and no other.
ListMineIsOwn ==
    \A r \in Req :
        ( /\ req[r].pc = "idle" /\ req'[r].route = "list_mine"
          /\ Authenticated(req'[r].caller) )
        => /\ req'[r].pc = "done" /\ req'[r].status = 200
           /\ \A x \in req'[r].data :
                 x \in registrations /\ x.userId = req'[r].caller
           /\ \A x \in registrations :
                 x.userId = req'[r].caller => x \in req'[r].data

\* C27: list-mine returns exactly the Registrations whose owning user is the
\* authenticated requester, in every state: it never includes a registration
\* owned by another user and never omits one of the requester's own.
C27_ListMineIsExact == [][ListMineIsOwn]_vars

\* While u1 and u2 each hold a registration, u1's list-mine answered with
\* u1's registration and without u2's.
C27_Witness ==
    \E r \in Calls("list_mine") :
        /\ Done(r) /\ req[r].caller = "u1" /\ req[r].status = 200
        /\ \E x \in registrations : x.userId = "u1" /\ x \in req[r].data
        /\ \E y \in registrations : y.userId = "u2" /\ y \notin req[r].data

(***************************************************************************)
(* What a register call reports.                                           *)
(***************************************************************************)
\* C28: on both entry points a register call reports success (201) if and
\* only if that call created a Registration row: a call that has answered
\* 201 has created one, and a call that has answered 400, 404 or 500 has
\* created none.
C28_SuccessIffRowCreated ==
    \A r \in Calls("register") :
        Done(r) => ( req[r].status = 201
                     <=> (req[r].body # NoId \/ req[r].doc # NoId) )

(***************************************************************************)
(* Cancel between the read and the write of a scan.                        *)
(***************************************************************************)
\* A scan whose registration was deleted after it was read does not report
\* granted:true and stores nothing; a scan that reports granted:true leaves
\* its registration stored.
ScanOfDeletedIsNotGranted ==
    \A r \in Req :
        (req[r].pc = "scan_save" /\ req'[r].pc = "done")
        => /\ FindById(req[r].doc) = {}
                => (req'[r].success # "true" /\ registrations' = registrations)
           /\ req'[r].success = "true"
                => \E x \in registrations' : x.id = req[r].doc

\* A registration identity that has been handed out and is no longer stored
\* is never stored again.
NeverResurrected ==
    \A id \in KnownIds :
        FindById(id) = {} => ~\E x \in registrations' : x.id = id

\* C29: a cancelled registration is never resurrected: if cancel deletes a
\* registration between a concurrent scan's read and its write, the scan does
\* not report granted:true and no Registration row with the cancelled
\* identity exists in any later state.
C29_CancelledNeverResurrected ==
    [][ScanOfDeletedIsNotGranted /\ NeverResurrected]_vars

\* A cancel deleted the registration a scan had read; the scan's save failed
\* and the registration is gone.
C29_Witness ==
    \E s \in Calls("scan") : \E c \in Calls("cancel") :
        /\ Done(c) /\ req[c].status = 200 /\ req[c].id = req[s].doc
        /\ Done(s) /\ req[s].status = 500
        /\ req[s].message = "DocumentNotFoundError"
        /\ FindById(req[s].doc) = {}

(***************************************************************************)
(* Scan and the event catalog.                                             *)
(***************************************************************************)
\* The step that reports granted:true is for a registration whose event is in
\* the catalog.
GrantsOnlyForListedEvent ==
    \A r \in Req :
        (req[r].pc = "scan_save" /\ req'[r].pc = "done" /\ req'[r].success = "true")
        => \A x \in FindById(req[r].doc) : events[x.eventId].exists

\* C30: scan never reports granted:true for a registration whose event no
\* longer exists in the event catalog, under any interleaving of register,
\* event delete and scan.
C30_NoGrantForDeletedEvent == [][GrantsOnlyForListedEvent]_vars


(***************************************************************************)
(* Accounts and notifications.                                             *)
(***************************************************************************)
\* C31: the admin capability cannot be self-granted.  No route lets an admin
\* grant the role, so the only callers who hold it by right are the admins
\* the system starts with: every scan that is granted, that is every
\* registration that becomes attended, was sent by one of them, never by a
\* caller who obtained the role through the public signup request.
C31_AdminNotSelfGranted ==
    \A r \in Calls("scan") : Granted(r) => HoldsAdminRole(req[r].caller)

\* A mark-as-read request flips the read flag of the requester's own
\* notifications only.
MarkReadChangesOwn ==
    \A r \in Req :
        (req[r].pc = "idle" /\ req'[r].route = "mark_read")
        => \A n \in notifications : \A m \in notifications' :
               (m.id = n.id /\ m.read # n.read) => n.userId = req'[r].caller

\* C32: a mark-as-read request changes only a notification addressed to the
\* authenticated requester; no user changes the read flag of a notification
\* that belongs to another user.
C32_MarkReadOnlyOwn == [][MarkReadChangesOwn]_vars


(***************************************************************************)
(* The browser.                                                            *)
(***************************************************************************)
\* The answer to the page's last request has arrived.
HasHeard == dashboard.answered \notin {NoAnswer, Pending}

\* C33: in the user dashboard the success dialog ("You're Registered!") is
\* shown only if the register request succeeded: once the server has
\* rejected the request (duplicate, full, unknown event) or the network has
\* failed, the success dialog is not open.
C33_SuccessDialogOnlyOnSuccess ==
    (Shown = Render("UserDashboard") /\ HasHeard /\ dashboard.successModalOpen)
    => Ok(dashboard.answered)

\* C34: in the admin scanner the displayed verdict follows the server's scan
\* result: ACCESS GRANTED is shown if and only if the answer has success
\* true, and ACCESS DENIED with the server's message otherwise.
C34_VerdictFollowsAnswer ==
    (Shown = Render("AdminDashboard") /\ HasHeard /\ dashboard.answered # NetworkError)
    => /\ Verdict = "ACCESS GRANTED" <=> dashboard.answered.success = "true"
       /\ dashboard.answered.success # "true"
             => /\ Verdict = "ACCESS DENIED"
                /\ VerdictMessage = dashboard.answered.message

\* C35: the admin dashboard is rendered only while the current user has role
\* admin and the user dashboard only while the current user has role user;
\* with no current user the guarded paths and the root path lead to /auth.
C35_RouteGuard ==
    /\ Shown.page = "AdminDashboard"
          => store.user # Null /\ store.user.role = "admin"
    /\ Shown.page = "UserDashboard"
          => store.user # Null /\ store.user.role = "user"
    /\ (store.user = Null /\ location.path \in {"/", "/admin", "/dashboard"})
          => Shown = RedirectTo("/auth")

\* The admin asked for the root path and the router took them to their
\* dashboard.
C35_Witness ==
    /\ store.user = UserOf("adm")
    /\ location = [path |-> "/admin", redirects |-> 1]
    /\ Shown = Render("AdminDashboard")

\* The chain of redirects that starts at a path reaches a page that renders
\* within n redirects, the user staying the same.
RECURSIVE Settles(_, _, _)
Settles(path, user, n) ==
    \/ Router(path, user).kind = "render"
    \/ n > 0 /\ Settles(Router(path, user).to, user, n - 1)

\* C36: client redirects terminate.  From every path and for the current
\* user, whoever that is, the chain of redirects reaches a page that renders
\* before it could visit a path twice, and the chain the router actually
\* follows never runs to the limit of the redirects followed while still
\* redirecting.
C36_RedirectsTerminate ==
    /\ \A p \in Paths : Settles(p, store.user, Cardinality(Paths) - 1)
    /\ location.redirects = MaxRedirects => Shown.kind = "render"

\* A user without the admin role asked for /admin: two redirects, by way of
\* the root path, and the user dashboard renders.
C36_Witness ==
    /\ store.user = UserOf("u1")
    /\ location = [path |-> "/dashboard", redirects |-> 2]
    /\ Shown = Render("UserDashboard")

\* The step in which a logout is answered leaves the store as it was before
\* anybody logged in.
LogoutClearsStore ==
    ( /\ \E f \in fetches : f.call = "logout" /\ f \notin fetches'
      /\ store.user # Null
      /\ store'.user = Null )
    => store' = EmptyStore

\* C37: after a successful logout the client store holds no data of the
\* previous session: the current user is null and the registrations, the
\* notifications and the admin-only user directory are all empty.
C37_LogoutLeavesNothing == [][LogoutClearsStore]_vars

====
